---------------------------- MODULE Spec2Model ----------------------------
(***************************************************************************)
(* Model of the bronze-layer validator                                     *)
(* (src/python/bronze/validate_bronze_files.py): validate_year, the pure   *)
(* helpers it calls, and the exit code main derives from its result.       *)
(*                                                                         *)
(* A file of the year folder is its name together with what reading it     *)
(* yields; the same file yields the same thing each time it is read.  The  *)
(* --sheet argument only selects which sheet that is and is not a          *)
(* variable.  resolve_paths and a missing year folder fail before any      *)
(* state below exists and are left out; so is write_reports, which does    *)
(* not change the payload.                                                 *)
(***************************************************************************)
EXTENDS Integers, Sequences, FiniteSets, TLC

VARIABLES
    year,                 \* --year
    strict_name_pattern,  \* --strict-names
    disk,                 \* the *.xlsx files of the year folder: name -> content
    pc,                   \* position of the run
    files,                \* find_xlsx_files(...): the sorted file names
    idx,                  \* position of the `for f in files` loop (1-based)
    name_issues,
    ref_cols,
    key_candidates,
    results,
    schema_mismatches,
    read_errors,
    status,
    reads,                \* file names handed to safe_read_excel, in call order
    exit_code             \* value returned by main (meaningful when pc = "exited")

vars == <<year, strict_name_pattern, disk, pc, files, idx, name_issues, ref_cols,
          key_candidates, results, schema_mismatches, read_errors, status,
          reads, exit_code>>

(* Bounds of the model. *)
MaxFiles == 2
MaxCols == 2

-----------------------------------------------------------------------------
(* Character data.  A Python str is modelled as a sequence of one-character
   strings, so that lower(), strip(), startswith(), len() and the ordering
   used by sorted() are computed, not assumed. *)
UpperChars ==
    <<"A", "B", "C", "D", "E", "F", "G", "H", "I", "J", "K", "L", "M", "N", "O", "P", "Q", "R", "S", "T", "U", "V", "W", "X", "Y", "Z">>
LowerChars ==
    <<"a", "b", "c", "d", "e", "f", "g", "h", "i", "j", "k", "l", "m", "n", "o", "p", "q", "r", "s", "t", "u", "v", "w", "x", "y", "z">>
(* The characters that occur in the model, in code point order. *)
CodePointOrder ==
    <<" ", "-", ".", "0", "1", "2", "3", "4", "5", "6", "7", "8", "9">> \o UpperChars \o <<"_">> \o LowerChars

CLIENT_ALIASES ==
    { <<"i", "d", "_", "c", "l", "i", "e", "n", "t", "e">>,
      <<"c", "l", "i", "e", "n", "t", "e", "_", "i", "d">>,
      <<"c", "u", "s", "t", "o", "m", "e", "r", "_", "i", "d">> }
DATE_ALIASES ==
    { <<"d", "a", "t", "a">>,
      <<"d", "t">>,
      <<"d", "a", "t", "a", "_", "c", "o", "m", "p", "r", "a">>,
      <<"p", "u", "r", "c", "h", "a", "s", "e", "_", "d", "a", "t", "e">>,
      <<"o", "r", "d", "e", "r", "_", "d", "a", "t", "e">> }
ORDER_ALIASES ==
    { <<"i", "d", "_", "p", "e", "d", "i", "d", "o">>,
      <<"p", "e", "d", "i", "d", "o", "_", "i", "d">>,
      <<"o", "r", "d", "e", "r", "_", "i", "d">>,
      <<"i", "d", "_", "t", "r", "a", "n", "s", "a", "c", "a", "o">>,
      <<"t", "r", "a", "n", "s", "a", "c", "a", "o", "_", "i", "d">>,
      <<"t", "r", "a", "n", "s", "a", "c", "t", "i", "o", "n", "_", "i", "d">> }


Whitespace == {" "}

(* str.lower() *)
LowerChar(c) ==
    IF \E k \in 1..Len(UpperChars) : UpperChars[k] = c
    THEN LowerChars[CHOOSE k \in 1..Len(UpperChars) : UpperChars[k] = c]
    ELSE c

lower(s) == [k \in 1..Len(s) |-> LowerChar(s[k])]

(* str.strip(): drops the leading and the trailing whitespace. *)
RECURSIVE lstrip(_)
lstrip(s) ==
    IF s # <<>> /\ Head(s) \in Whitespace THEN lstrip(Tail(s)) ELSE s

RECURSIVE rstrip(_)
rstrip(s) ==
    IF s # <<>> /\ s[Len(s)] \in Whitespace
    THEN rstrip(SubSeq(s, 1, Len(s) - 1))
    ELSE s

strip(s) == rstrip(lstrip(s))

(* str.startswith(prefix) *)
startswith(s, prefix) ==
    /\ Len(prefix) <= Len(s)
    /\ SubSeq(s, 1, Len(prefix)) = prefix

(* Python's ordering of str: lexicographic by code point. *)
Ord(c) == CHOOSE k \in 1..Len(CodePointOrder) : CodePointOrder[k] = c

RECURSIVE StrLess(_, _)
StrLess(a, b) ==
    IF b = <<>> THEN FALSE
    ELSE IF a = <<>> THEN TRUE
    ELSE IF Head(a) # Head(b) THEN Ord(Head(a)) < Ord(Head(b))
    ELSE StrLess(Tail(a), Tail(b))

(* sorted(xs) for a list of str. *)
RECURSIVE Insert(_, _)
Insert(x, xs) ==
    IF xs = <<>> THEN <<x>>
    ELSE IF StrLess(x, Head(xs)) THEN <<x>> \o xs
    ELSE <<Head(xs)>> \o Insert(x, Tail(xs))

RECURSIVE sorted(_)
sorted(xs) ==
    IF xs = <<>> THEN <<>> ELSE Insert(xs[Len(xs)], sorted(SubSeq(xs, 1, Len(xs) - 1)))

(* str(int) for a non-negative int, as f"{year}" formats it. *)
DigitChars == <<"0", "1", "2", "3", "4", "5", "6", "7", "8", "9">>

RECURSIVE str(_)
str(n) ==
    IF n < 10 THEN <<DigitChars[n + 1]>>
    ELSE str(n \div 10) \o <<DigitChars[(n % 10) + 1]>>

Range(xs) == {xs[k] : k \in 1..Len(xs)}

(* [x for x in xs if x in/not in keep], order kept. *)
RECURSIVE Filter(_, _, _)
Filter(xs, ys, wantIn) ==
    IF xs = <<>> THEN <<>>
    ELSE (IF (Head(xs) \in Range(ys)) = wantIn THEN <<Head(xs)>> ELSE <<>>)
         \o Filter(Tail(xs), ys, wantIn)

-----------------------------------------------------------------------------
(* find_xlsx_files: the names matching *.xlsx, sorted.  Paths of one folder
   compare as their names do. *)
RECURSIVE SetToSeq(_)
SetToSeq(S) ==
    IF S = {} THEN <<>>
    ELSE LET x == CHOOSE y \in S : TRUE IN <<x>> \o SetToSeq(S \ {x})

find_xlsx_files(names) == sorted(SetToSeq(names))

(* Path.stem: the name without its last suffix. *)
stem(name) ==
    LET dots == {k \in 2..Len(name) : name[k] = "."}
    IN  IF dots = {} THEN name
        ELSE SubSeq(name, 1, (CHOOSE k \in dots : \A j \in dots : j <= k) - 1)

(* normalize_cols *)
normalize_cols(cols) == [k \in 1..Len(cols) |-> strip(cols[k])]

(* FirstMatch comparing the spelling as written, without lower(). *)
FirstMatch_exact(columns, aliases) ==
    LET hits == {k \in 1..Len(columns) : columns[k] \in aliases}
    IN  IF hits = {} THEN <<>>
        ELSE columns[CHOOSE k \in hits : \A j \in hits : k <= j]

(* The three `for c in columns: if c.lower() in (...): ...; break` loops of
   pick_candidate_keys.  None is modelled as the empty string: both are
   falsy in the `if id_pedido:` / `if id_cliente and dt:` tests. *)
FirstMatch(columns, aliases) ==
    LET hits == {k \in 1..Len(columns) : lower(columns[k]) \in aliases}
    IN  IF hits = {} THEN <<>>
        ELSE columns[CHOOSE k \in hits : \A j \in hits : k <= j]

EmptyDict == [k \in {} |-> <<>>]

pick_candidate_keys(columns) ==
    LET id_cliente == FirstMatch(columns, CLIENT_ALIASES)
        dt         == FirstMatch(columns, DATE_ALIASES)
        id_pedido  == FirstMatch(columns, ORDER_ALIASES)
        labels     == (IF id_pedido # <<>> THEN {"dup_order_id"} ELSE {})
                      \cup (IF id_cliente # <<>> /\ dt # <<>>
                            THEN {"dup_cliente_data"} ELSE {})
    IN  [k \in labels |-> IF k = "dup_order_id" THEN <<id_pedido>>
                                                ELSE <<id_cliente, dt>>]

(* Header labels and file names used as inputs. *)
c_order_id == <<"o", "r", "d", "e", "r", "_", "i", "d">>
c_sp_order_id == <<" ", "o", "r", "d", "e", "r", "_", "i", "d">>
c_Order_ID == <<"O", "r", "d", "e", "r", "_", "I", "D">>
c_id_pedido == <<"i", "d", "_", "p", "e", "d", "i", "d", "o">>
c_cliente_id == <<"c", "l", "i", "e", "n", "t", "e", "_", "i", "d">>
c_data == <<"d", "a", "t", "a">>
c_Data_sp == <<"D", "a", "t", "a", " ">>
c_valor == <<"v", "a", "l", "o", "r">>
c_sp_valor == <<" ", "v", "a", "l", "o", "r">>
n_2022_01 == <<"2", "0", "2", "2", "-", "0", "1", ".", "x", "l", "s", "x">>
n_2023_01 == <<"2", "0", "2", "3", "-", "0", "1", ".", "x", "l", "s", "x">>
n_2023_02 == <<"2", "0", "2", "3", "-", "0", "2", ".", "x", "l", "s", "x">>
n_2023_1 == <<"2", "0", "2", "3", "-", "1", ".", "x", "l", "s", "x">>
n_2023_ab == <<"2", "0", "2", "3", "-", "a", "b", ".", "x", "l", "s", "x">>

-----------------------------------------------------------------------------
(* A loaded sheet is [columns, rows]: the raw header labels (distinct, as
   pandas delivers them) and the rows as tuples of cells aligned with them.
   The `fail` field of a file says which step of its processing raises:
   "read" (safe_read_excel), "normalize", "profile", "duplicates", or "none". *)
NaN == "NaN"

(* mismatch_record comparing the columns as sets: set(cols) == set(ref_cols). *)
mismatch_record_sets(name, cols, refcols) ==
    [ file            |-> name,
      missing_cols    |-> Filter(refcols, cols, FALSE),
      extra_cols      |-> Filter(cols, refcols, FALSE),
      order_diff_only |-> (Range(cols) = Range(refcols)) /\ (cols # refcols) ]

(* lines 162-170: the mismatch record of a file whose columns differ. *)
mismatch_record(name, cols, refcols) ==
    [ file            |-> name,
      missing_cols    |-> Filter(refcols, cols, FALSE),
      extra_cols      |-> Filter(cols, refcols, FALSE),
      order_diff_only |-> (sorted(cols) = sorted(refcols)) /\ (cols # refcols) ]

(* sorted(null_counts.items(), key=lambda x: x[1], reverse=True): stable,
   so columns with equal counts keep their column order. *)
RECURSIVE InsertByNulls(_, _)
InsertByNulls(x, xs) ==
    IF xs = <<>> THEN <<x>>
    ELSE IF Head(xs)[2] >= x[2] THEN <<Head(xs)>> \o InsertByNulls(x, Tail(xs))
    ELSE <<x>> \o xs

RECURSIVE SortByNulls(_)
SortByNulls(xs) ==
    IF xs = <<>> THEN <<>>
    ELSE InsertByNulls(xs[Len(xs)], SortByNulls(SubSeq(xs, 1, Len(xs) - 1)))

(* basic_profile *)
basic_profile(df) ==
    LET n_rows      == Len(df.rows)
        n_cols      == Len(df.columns)
        null_counts == [p \in 1..n_cols |->
                           <<df.columns[p],
                             Cardinality({i \in 1..n_rows : df.rows[i][p] = NaN})>>]
        ranked      == SortByNulls(null_counts)
        top_nulls   == SubSeq(ranked, 1, IF Len(ranked) < 10 THEN Len(ranked) ELSE 10)
    IN  [ rows        |-> n_rows,
          cols        |-> n_cols,
          total_nulls |-> Cardinality({ij \in (1..n_rows) \X (1..n_cols) :
                                          df.rows[ij[1]][ij[2]] = NaN}),
          top_nulls   |-> SelectSeq(top_nulls, LAMBDA kv : kv[2] > 0) ]

(* int(df.duplicated(subset=...).sum()) with keep="first": the rows equal to
   an earlier row on the columns at `positions`. *)
duplicated_count(rows, positions) ==
    Cardinality({i \in 1..Len(rows) :
                    \E j \in 1..(i - 1) : \A p \in positions : rows[j][p] = rows[i][p]})

ColumnPositions(df, kcols) ==
    {p \in 1..Len(df.columns) : df.columns[p] \in Range(kcols)}

(* `c in df.columns`: membership among the labels of the loaded frame. *)
in_df_columns(c, df) == c \in Range(df.columns)

(* lines 176-183 *)
duplicates_info(df, keys) ==
    LET present == {k \in DOMAIN keys : \A c \in Range(keys[k]) : in_df_columns(c, df)}
    IN  [k \in {"dup_full_row_count"} \cup present |->
            IF k = "dup_full_row_count"
            THEN duplicated_count(df.rows, 1..Len(df.columns))
            ELSE duplicated_count(df.rows, ColumnPositions(df, keys[k]))]

(* lines 139-141: the strict-name test of one file. *)
name_matches_pattern(name, y) ==
    startswith(stem(name), str(y) \o <<"-">>) /\ Len(stem(name)) = 7

(* derive_status testing the warnings before the errors. *)
derive_status_warning_first(errors, mismatches, issues) ==
    IF mismatches # <<>> \/ issues # <<>> THEN "warning"
    ELSE IF errors # <<>> THEN "error"
    ELSE "ok"

(* lines 196-200 *)
derive_status(errors, mismatches, issues) ==
    IF errors # <<>> THEN "error"
    ELSE IF mismatches # <<>> \/ issues # <<>> THEN "warning"
    ELSE "ok"

(* exit_status escalating on every status but ok. *)
exit_status_not_ok(st) == IF st \in {"ok", "no_files"} THEN 0 ELSE 2

(* line 281 *)
exit_status(st) == IF st # "error" THEN 0 ELSE 2

-----------------------------------------------------------------------------
(* validate_year, lines 126-133: nothing discovered. *)
ReturnNoFiles ==
    /\ pc = "start"
    /\ find_xlsx_files(DOMAIN disk) = <<>>
    /\ files' = <<>>
    /\ status' = "no_files"
    /\ pc' = "returned"
    /\ UNCHANGED <<year, strict_name_pattern, disk, idx, name_issues, ref_cols,
                   key_candidates, results, schema_mismatches, read_errors,
                   reads, exit_code>>

(* lines 126-141: discovery and the optional name check. *)
CheckNames ==
    /\ pc = "start"
    /\ find_xlsx_files(DOMAIN disk) # <<>>
    /\ files' = find_xlsx_files(DOMAIN disk)
    /\ name_issues' =
           IF strict_name_pattern
           THEN SelectSeq(files', LAMBDA f : ~name_matches_pattern(f, year))
           ELSE <<>>
    /\ pc' = "reference"
    /\ UNCHANGED <<year, strict_name_pattern, disk, idx, ref_cols, key_candidates,
                   results, schema_mismatches, read_errors, status, reads,
                   exit_code>>

(* lines 144-153: the reference is read outside any try. *)
LoadReference ==
    /\ pc = "reference"
    /\ disk[files[1]].fail \notin {"read", "normalize"}
    /\ reads' = Append(reads, files[1])
    /\ ref_cols' = normalize_cols(disk[files[1]].columns)
    /\ key_candidates' = pick_candidate_keys(ref_cols')
    /\ idx' = 1
    /\ pc' = "loop"
    /\ UNCHANGED <<year, strict_name_pattern, disk, files, name_issues, results,
                   schema_mismatches, read_errors, status, exit_code>>

(* ReferenceRaises with the reference read inside a try: the error is
   recorded and the loop runs with no reference columns. *)
ReferenceRaises_caught ==
    /\ pc = "reference"
    /\ disk[files[1]].fail \in {"read", "normalize"}
    /\ reads' = Append(reads, files[1])
    /\ read_errors' = Append(read_errors, [file |-> files[1], error |-> disk[files[1]].fail])
    /\ idx' = 1
    /\ pc' = "loop"
    /\ UNCHANGED <<year, strict_name_pattern, disk, files, name_issues,
                   ref_cols, key_candidates, results, schema_mismatches,
                   status, exit_code>>

(* lines 145-146 raising: the exception leaves validate_year and main. *)
ReferenceRaises ==
    /\ pc = "reference"
    /\ disk[files[1]].fail \in {"read", "normalize"}
    /\ reads' = Append(reads, files[1])
    /\ pc' = "raised"
    /\ UNCHANGED <<year, strict_name_pattern, disk, files, idx, name_issues,
                   ref_cols, key_candidates, results, schema_mismatches,
                   read_errors, status, exit_code>>

(* ProcessFile with an except clause that leaves the loop (break). *)
ProcessFile_break ==
    /\ pc = "loop"
    /\ idx <= Len(files)
    /\ LET f    == files[idx]
           df   == disk[f]
           cols == normalize_cols(df.columns)
       IN  /\ reads' = Append(reads, f)
           /\ IF df.fail # "none"
              THEN /\ read_errors' = Append(read_errors, [file |-> f, error |-> df.fail])
                   /\ idx' = Len(files) + 1
                   /\ UNCHANGED <<schema_mismatches, results>>
              ELSE /\ schema_mismatches' =
                          IF cols # ref_cols
                          THEN Append(schema_mismatches,
                                      mismatch_record(f, cols, ref_cols))
                          ELSE schema_mismatches
                   /\ results' = Append(results,
                          [ file       |-> f,
                            path       |-> f,
                            profile    |-> basic_profile(df),
                            duplicates |-> duplicates_info(df, key_candidates),
                            schema_matches_reference |-> (cols = ref_cols) ])
                   /\ idx' = idx + 1
                   /\ UNCHANGED read_errors
    /\ UNCHANGED <<year, strict_name_pattern, disk, pc, files, name_issues,
                   ref_cols, key_candidates, status, exit_code>>

(* lines 155-194: one iteration of the loop over the files. *)
ProcessFile ==
    /\ pc = "loop"
    /\ idx <= Len(files)
    /\ LET f    == files[idx]
           df   == disk[f]
           cols == normalize_cols(df.columns)
           err  == [file |-> f, error |-> df.fail]
       IN  /\ reads' = Append(reads, f)
           /\ IF df.fail \in {"read", "normalize"}
              THEN /\ read_errors' = Append(read_errors, err)
                   /\ UNCHANGED <<schema_mismatches, results>>
              ELSE /\ schema_mismatches' =
                          IF cols # ref_cols
                          THEN Append(schema_mismatches,
                                      mismatch_record(f, cols, ref_cols))
                          ELSE schema_mismatches
                   /\ IF df.fail \in {"profile", "duplicates"}
                      THEN /\ read_errors' = Append(read_errors, err)
                           /\ UNCHANGED results
                      ELSE /\ results' = Append(results,
                                  [ file       |-> f,
                                    path       |-> f,
                                    profile    |-> basic_profile(df),
                                    duplicates |-> duplicates_info(df, key_candidates),
                                    schema_matches_reference |-> (cols = ref_cols) ])
                           /\ UNCHANGED read_errors
    /\ idx' = idx + 1
    /\ UNCHANGED <<year, strict_name_pattern, disk, pc, files, name_issues,
                   ref_cols, key_candidates, status, exit_code>>

(* lines 196-213: the loop is over; status and return. *)
DeriveStatus ==
    /\ pc = "loop"
    /\ idx > Len(files)
    /\ status' = derive_status(read_errors, schema_mismatches, name_issues)
    /\ pc' = "returned"
    /\ UNCHANGED <<year, strict_name_pattern, disk, files, idx, name_issues,
                   ref_cols, key_candidates, results, schema_mismatches,
                   read_errors, reads, exit_code>>

(* main, lines 267-281: reports written, exit code from the status. *)
MainExit ==
    /\ pc = "returned"
    /\ exit_code' = exit_status(status)
    /\ pc' = "exited"
    /\ UNCHANGED <<year, strict_name_pattern, disk, files, idx, name_issues,
                   ref_cols, key_candidates, results, schema_mismatches,
                   read_errors, status, reads>>

Next ==
    \/ ReturnNoFiles
    \/ CheckNames
    \/ LoadReference
    \/ ReferenceRaises
    \/ ProcessFile
    \/ DeriveStatus
    \/ MainExit

-----------------------------------------------------------------------------
(* Inputs. *)
Years == {2023}

(* Rows of a sheet with w columns: the third repeats the first; the second
   agrees with them on the first column only; the fourth has a null. *)
Table(w) ==
    IF w = 0 THEN <<>>
    ELSE << [j \in 1..w |-> "a"],
            [j \in 1..w |-> IF j = 1 THEN "a" ELSE "b"],
            [j \in 1..w |-> "a"],
            [j \in 1..w |-> IF j = w THEN NaN ELSE "b"] >>

Unreadable == [columns |-> <<>>, rows |-> <<>>, fail |-> "read"]

Sheets(columnLists, fails) ==
    {[columns |-> c, rows |-> Table(Len(c)), fail |-> fl] :
        c \in columnLists, fl \in fails}

Folders(names, contents, n) ==
    UNION {[S -> contents] : S \in {T \in SUBSET names : Cardinality(T) <= n}}

Start(folder, y, strict) ==
    /\ year = y
    /\ strict_name_pattern = strict
    /\ disk = folder
    /\ pc = "start"
    /\ files = <<>>
    /\ idx = 0
    /\ name_issues = <<>>
    /\ ref_cols = <<>>
    /\ key_candidates = EmptyDict
    /\ results = <<>>
    /\ schema_mismatches = <<>>
    /\ read_errors = <<>>
    /\ status = "unset"
    /\ reads = <<>>
    /\ exit_code = -1

(* Batches: up to MaxFiles files, names that pass and fail the name check,
   sheets that match, reorder, lack or pad the columns, every failing step. *)
BatchNames == {n_2022_01, n_2023_01, n_2023_1, n_2023_ab}

BatchColumns ==
    { <<c_order_id, c_valor>>, <<c_valor, c_order_id>>, <<c_valor>>,
      <<c_sp_order_id, c_valor>>, <<c_valor, c_sp_valor>> }

BatchContents ==
    {Unreadable}
    \cup Sheets(BatchColumns, {"none", "normalize", "profile", "duplicates"})

Init ==
    \E folder \in Folders(BatchNames, BatchContents, MaxFiles),
       y \in Years, strict \in BOOLEAN :
        Start(folder, y, strict)

Spec == Init /\ [][Next]_vars

(* One or two readable files with every list of up to MaxCols distinct
   header labels. *)
HeaderLabels == {c_order_id, c_cliente_id, c_data, c_valor, c_sp_valor}

RECURSIVE DistinctLists(_, _)
DistinctLists(labels, n) ==
    IF n = 0 THEN {<<>>}
    ELSE LET shorter == DistinctLists(labels, n - 1)
         IN  shorter \cup UNION {{Append(s, l) : l \in labels \ Range(s)} : s \in shorter}

FileNames == {n_2023_01, n_2023_02}

FileContents == {Unreadable} \cup Sheets(DistinctLists(HeaderLabels, MaxCols), {"none"})

InitFile ==
    \E folder \in Folders(FileNames, FileContents, 2), y \in Years :
        Start(folder, y, FALSE)

SpecFile == InitFile /\ [][Next]_vars

(* pick_candidate_keys alone, on every list of up to MaxCols labels. *)
KeyLabels ==
    {c_order_id, c_sp_order_id, c_Order_ID, c_id_pedido, c_cliente_id, c_data,
     c_Data_sp, c_valor}

KeyColumnLists == UNION {[1..n -> KeyLabels] : n \in 0..MaxCols}

InitKeys ==
    /\ \E cols \in KeyColumnLists : ref_cols = cols
    /\ year = 2023
    /\ strict_name_pattern = FALSE
    /\ disk = EmptyDict
    /\ pc = "keys"
    /\ files = <<>>
    /\ idx = 0
    /\ name_issues = <<>>
    /\ key_candidates = EmptyDict
    /\ results = <<>>
    /\ schema_mismatches = <<>>
    /\ read_errors = <<>>
    /\ status = "unset"
    /\ reads = <<>>
    /\ exit_code = -1

(* line 153 *)
PickCandidateKeys ==
    /\ pc = "keys"
    /\ key_candidates' = pick_candidate_keys(ref_cols)
    /\ pc' = "picked"
    /\ UNCHANGED <<year, strict_name_pattern, disk, files, idx, name_issues,
                   ref_cols, results, schema_mismatches, read_errors, status,
                   reads, exit_code>>

NextKeys == PickCandidateKeys

SpecKeys == InitKeys /\ [][NextKeys]_vars

-----------------------------------------------------------------------------
(* Vocabulary of the properties. *)
Returned == pc \in {"returned", "exited"} /\ files # <<>>

Count(x, xs) == Cardinality({k \in 1..Len(xs) : xs[k] = x})

Entries(name, records) == {k \in 1..Len(records) : records[k].file = name}

Raised(f) == disk[f].fail # "none"

RefUnreadable == files # <<>> /\ disk[files[1]].fail \in {"read", "normalize"}

(* C1: when validate_year returns for N >= 1 files, every discovered file has
   exactly one entry, in `files` (results) or in `read_errors` and not both;
   results holds the files processed without an exception, read_errors the
   files whose processing raised, and the two lengths add up to N.  During
   the loop every file before the current one already has its entry, so a
   failure never stops the files after it. *)
C1_EveryFileOnce ==
    /\ Returned =>
         /\ Len(results) + Len(read_errors) = Len(files)
         /\ Len(results) = Cardinality({f \in Range(files) : ~Raised(f)})
         /\ Len(read_errors) = Cardinality({f \in Range(files) : Raised(f)})
         /\ \A f \in Range(files) :
               Cardinality(Entries(f, results)) + Cardinality(Entries(f, read_errors)) = 1
    /\ pc = "loop" => Len(results) + Len(read_errors) = idx - 1

C1_Witness ==
    /\ Returned
    /\ \E i, j \in 1..Len(files) :
          /\ i < j
          /\ Entries(files[i], read_errors) # {}
          /\ Entries(files[j], results) # {}

(* C2: for a batch with at least one file that returns, status is "error"
   iff read_errors is non-empty; otherwise "warning" iff there is a schema
   mismatch or a name issue; otherwise "ok"; never "no_files". *)
C2_StatusPriority ==
    Returned =>
        /\ status \in {"error", "warning", "ok"}
        /\ (status = "error") <=> (read_errors # <<>>)
        /\ (status = "warning") <=>
               (read_errors = <<>> /\ (schema_mismatches # <<>> \/ name_issues # <<>>))
        /\ (status = "ok") <=>
               (read_errors = <<>> /\ schema_mismatches = <<>> /\ name_issues = <<>>)

C2_Witness ==
    /\ Returned
    /\ read_errors # <<>>
    /\ schema_mismatches # <<>>
    /\ name_issues # <<>>
    /\ status = "error"

(* The rows of df that repeat an earlier row on the columns named `kcols`
   (names after trimming): all rows minus the distinct projections. *)
RepeatsOn(df, kcols) ==
    LET pos == {p \in 1..Len(df.columns) : strip(df.columns[p]) \in Range(kcols)}
    IN  Len(df.rows) - Cardinality({[p \in pos |-> df.rows[i][p]] : i \in 1..Len(df.rows)})

(* C3: for every profiled file and every candidate key, `duplicates` has the
   key's entry iff all the key's columns are among the file's normalized
   columns; the entry is the number of rows repeating an earlier row on those
   columns; dup_full_row_count is always present; a file that matches the
   reference has an entry for every candidate key. *)
C3_KeyEntryIffColumnsPresent ==
    \A k \in 1..Len(results) :
        LET r    == results[k]
            df   == disk[r.file]
            cols == normalize_cols(df.columns)
        IN  /\ "dup_full_row_count" \in DOMAIN r.duplicates
            /\ \A key \in DOMAIN key_candidates :
                  /\ (key \in DOMAIN r.duplicates) <=>
                         (Range(key_candidates[key]) \subseteq Range(cols))
                  /\ key \in DOMAIN r.duplicates =>
                         r.duplicates[key] = RepeatsOn(df, key_candidates[key])
            /\ r.schema_matches_reference =>
                  DOMAIN key_candidates \subseteq DOMAIN r.duplicates

(* YYYY-MM for the requested year: the year, a hyphen, two digits. *)
IsYearMonth(s, y) ==
    /\ Len(s) = 7
    /\ SubSeq(s, 1, 4) = str(y)
    /\ s[5] = "-"
    /\ s[6] \in Range(DigitChars)
    /\ s[7] \in Range(DigitChars)

(* C4: with strict naming a file is in name_issues iff its base name is not
   YYYY-MM for the requested year, and such a file still gets its entry in
   results or read_errors; without strict naming name_issues is empty. *)
C4_NameIssuesIffNotYearMonth ==
    pc \notin {"start", "keys", "picked"} /\ files # <<>> =>
        /\ strict_name_pattern =>
              \A f \in Range(files) :
                  (f \in Range(name_issues)) <=> ~IsYearMonth(stem(f), year)
        /\ ~strict_name_pattern => name_issues = <<>>
        /\ Returned =>
              \A f \in Range(name_issues) :
                  Entries(f, results) # {} \/ Entries(f, read_errors) # {}

(* Equal as unordered collections: every name occurs equally often. *)
SameBag(xs, ys) == \A x \in Range(xs) \cup Range(ys) : Count(x, xs) = Count(x, ys)

(* C5: a profiled file whose normalized columns differ from the reference has
   one mismatch record, whose order_diff_only is true exactly when the two
   column lists are equal as unordered collections, and then missing_cols and
   extra_cols are empty; a file whose columns are identical to the reference
   (the reference itself included) has no record and
   schema_matches_reference = true. *)
C5_OrderDiffOnly ==
    \A k \in 1..Len(results) :
        LET r    == results[k]
            cols == normalize_cols(disk[r.file].columns)
            recs == Entries(r.file, schema_mismatches)
        IN  /\ cols # ref_cols =>
                  /\ Cardinality(recs) = 1
                  /\ ~r.schema_matches_reference
                  /\ \A m \in recs :
                        /\ schema_mismatches[m].order_diff_only <=> SameBag(cols, ref_cols)
                        /\ schema_mismatches[m].order_diff_only =>
                              /\ schema_mismatches[m].missing_cols = <<>>
                              /\ schema_mismatches[m].extra_cols = <<>>
            /\ cols = ref_cols => recs = {} /\ r.schema_matches_reference
            /\ r.file = files[1] => recs = {} /\ r.schema_matches_reference

C5_Witness ==
    /\ Returned
    /\ Len(results) = 2
    /\ results[1].schema_matches_reference
    /\ \E m \in 1..Len(schema_mismatches) :
          /\ schema_mismatches[m].file = files[2]
          /\ schema_mismatches[m].order_diff_only
          /\ Len(ref_cols) = 2

(* c is alias a up to the case of its letters. *)
SameIgnoringCase(c, a) ==
    /\ Len(c) = Len(a)
    /\ \A i \in 1..Len(a) :
          \/ c[i] = a[i]
          \/ \E u \in 1..Len(UpperChars) : c[i] = UpperChars[u] /\ a[i] = LowerChars[u]

Matching(columns, aliases) ==
    {k \in 1..Len(columns) : \E a \in aliases : SameIgnoringCase(columns[k], a)}

First(S) == CHOOSE k \in S : \A j \in S : k <= j

(* C6: pick_candidate_keys returns at most the two labels; dup_order_id is
   present iff some column is an order/transaction-id alias up to case, and is
   then the first such column alone; dup_cliente_data is present iff some
   column is a customer-id alias and some column is a date alias, and is then
   [first customer-id column, first date column]; the columns are returned
   as spelled in the input. *)
C6_CandidateKeys ==
    pc = "picked" =>
        LET orders  == Matching(ref_cols, ORDER_ALIASES)
            clients == Matching(ref_cols, CLIENT_ALIASES)
            dates   == Matching(ref_cols, DATE_ALIASES)
        IN  /\ DOMAIN key_candidates \subseteq {"dup_order_id", "dup_cliente_data"}
            /\ ("dup_order_id" \in DOMAIN key_candidates) <=> (orders # {})
            /\ orders # {} =>
                  key_candidates["dup_order_id"] = <<ref_cols[First(orders)]>>
            /\ ("dup_cliente_data" \in DOMAIN key_candidates) <=>
                  (clients # {} /\ dates # {})
            /\ (clients # {} /\ dates # {}) =>
                  key_candidates["dup_cliente_data"] =
                      <<ref_cols[First(clients)], ref_cols[First(dates)]>>
            /\ (orders = {} /\ (clients = {} \/ dates = {})) => key_candidates = EmptyDict

C6_Witness ==
    /\ pc = "picked"
    /\ ref_cols = <<c_Order_ID, c_id_pedido>>
    /\ key_candidates["dup_order_id"] = <<c_Order_ID>>

(* C7: an unreadable reference aborts the batch: the exception propagates, no
   status and no exit code are produced, only the reference was handed to the
   reader, and nothing is recorded in read_errors.  With a readable reference
   the run never aborts, and at return every file whose processing raised is
   in read_errors under its name. *)
C7_ReferenceFatalOthersRecovered ==
    /\ (RefUnreadable /\ pc \notin {"start", "reference"}) =>
          /\ pc = "raised"
          /\ status = "unset"
          /\ exit_code = -1
          /\ reads = <<files[1]>>
          /\ read_errors = <<>>
          /\ results = <<>>
    /\ pc = "raised" => RefUnreadable
    /\ (Returned /\ ~RefUnreadable) =>
          \A f \in Range(files) : Raised(f) => Entries(f, read_errors) # {}

C7_Witness ==
    /\ pc = "raised"
    /\ Len(files) = 2
    /\ ~Raised(files[2])

(* C8: when main ends, the exit code is 2 iff a file failed to read (status
   "error"), and 0 for ok, warning and no_files. *)
C8_ExitCode ==
    pc = "exited" =>
        /\ exit_code \in {0, 2}
        /\ (exit_code = 2) <=> (status = "error")
        /\ (exit_code = 2) <=> (read_errors # <<>>)
        /\ status \in {"ok", "warning", "no_files"} => exit_code = 0

C8_Witness ==
    /\ pc = "exited"
    /\ status = "warning"
    /\ schema_mismatches # <<>>
    /\ exit_code = 0

(* C9: every schema mismatch record names a missing column, an extra column,
   or an order-only difference. *)
C9_MismatchInformative ==
    \A m \in 1..Len(schema_mismatches) :
        \/ schema_mismatches[m].missing_cols # <<>>
        \/ schema_mismatches[m].extra_cols # <<>>
        \/ schema_mismatches[m].order_diff_only

(* C10: in a returned result a file is in schema_mismatches iff it has an
   entry in results with schema_matches_reference = false, no file has two
   mismatch records, and no file is both in schema_mismatches and in
   read_errors. *)
C10_MismatchesAgreeWithFiles ==
    Returned =>
        /\ {schema_mismatches[m].file : m \in 1..Len(schema_mismatches)} =
               {results[k].file : k \in {j \in 1..Len(results) :
                                            ~results[j].schema_matches_reference}}
        /\ \A f \in Range(files) :
              /\ Cardinality(Entries(f, schema_mismatches)) <= 1
              /\ ~(Entries(f, schema_mismatches) # {} /\ Entries(f, read_errors) # {})

=============================================================================
